---- MODULE Spec2Model ----
(***************************************************************************)
(* Model of gray-matter-rs: Matter::parse scans a document line by line,   *)
(* splits it into front matter, excerpt and content, and hands the front   *)
(* matter to the engine.                                                   *)
(*                                                                         *)
(* A Rust string is a sequence of one-character strings; every character   *)
(* used is ASCII, so str::len (bytes) is Len.                              *)
(***************************************************************************)
EXTENDS Integers, Sequences, FiniteSets, TLC

VARIABLES delimiter, excerpt_delimiter, input, parsed_entity

vars == <<delimiter, excerpt_delimiter, input, parsed_entity>>

----------------------------------------------------------------------------
(* Characters and Option values                                            *)

NL == "\n"
CR == "\r"
SP == " "
HASH == "#"

\* Option<T>
None == [some |-> FALSE]
Some(v) == [some |-> TRUE, val |-> v]

\* char::is_whitespace / regex \s, over the characters of the model
IsWhitespace(c) == c \in {SP, NL, CR, "\t"}

----------------------------------------------------------------------------
(* str methods of the standard library used by parse                       *)

\* self.delimiter.clone() of Matter::new
DefaultDelimiter == <<"-", "-", "-">>

RECURSIVE TrimEnd(_)
TrimEnd(s) ==
    IF s = <<>> THEN <<>>
    ELSE IF IsWhitespace(s[Len(s)]) THEN TrimEnd(SubSeq(s, 1, Len(s) - 1))
    ELSE s

RECURSIVE TrimStart(_)
TrimStart(s) ==
    IF s = <<>> THEN <<>>
    ELSE IF IsWhitespace(s[1]) THEN TrimStart(Tail(s))
    ELSE s

Trim(s) == TrimStart(TrimEnd(s))

RECURSIVE TrimMatchesNL(_)
TrimMatchesNL(s) ==
    IF s = <<>> THEN <<>>
    ELSE IF s[1] = NL THEN TrimMatchesNL(Tail(s))
    ELSE IF s[Len(s)] = NL THEN TrimMatchesNL(SubSeq(s, 1, Len(s) - 1))
    ELSE s

HasSuffix(s, suffix) ==
    /\ Len(suffix) <= Len(s)
    /\ SubSeq(s, Len(s) - Len(suffix) + 1, Len(s)) = suffix

\* str::strip_suffix: None when s does not end with suffix
StripSuffix(s, suffix) ==
    IF HasSuffix(s, suffix) THEN Some(SubSeq(s, 1, Len(s) - Len(suffix)))
    ELSE None

\* index of the first '\n' of s, 0 when there is none
RECURSIVE FirstNL(_, _)
FirstNL(s, i) ==
    IF i > Len(s) THEN 0
    ELSE IF s[i] = NL THEN i
    ELSE FirstNL(s, i + 1)

\* str::split_once('\n')
SplitOnce(s) ==
    LET i == FirstNL(s, 1) IN
    IF i = 0 THEN None
    ELSE Some(<<SubSeq(s, 1, i - 1), SubSeq(s, i + 1, Len(s))>>)

\* the line-terminator handling of str::lines: a line loses the "\r" of "\r\n"
StripCR(line) ==
    IF line # <<>> /\ line[Len(line)] = CR THEN SubSeq(line, 1, Len(line) - 1)
    ELSE line

\* str::lines: lines end at "\n" or "\r\n", the last line ending is optional
RECURSIVE Lines(_)
Lines(s) ==
    IF s = <<>> THEN <<>>
    ELSE LET i == FirstNL(s, 1) IN
         IF i = 0 THEN <<s>>
         ELSE <<StripCR(SubSeq(s, 1, i - 1))>> \o Lines(SubSeq(s, i + 1, Len(s)))

----------------------------------------------------------------------------
(* Regex::new(r"(?m)^\s*#[^\n]+") and Regex::replace_all(&acc, "")          *)

\* (?m)^ : at the start of the text or right after a "\n"
AtLineStart(s, p) == p = 1 \/ s[p - 1] = NL

\* \s* is greedy and "#" is no whitespace: it takes the whole whitespace run
RECURSIVE SkipWhitespace(_, _)
SkipWhitespace(s, p) ==
    IF p <= Len(s) /\ IsWhitespace(s[p]) THEN SkipWhitespace(s, p + 1) ELSE p

\* [^\n]+ is greedy: it runs to the end of the line (first index not taken)
RECURSIVE SkipToLineEnd(_, _)
SkipToLineEnd(s, p) ==
    IF p <= Len(s) /\ s[p] # NL THEN SkipToLineEnd(s, p + 1) ELSE p

\* the index after the match of the pattern that starts at p, 0 when none starts there
CommentMatchEnd(s, p) ==
    LET q == SkipWhitespace(s, p) IN
    IF /\ AtLineStart(s, p)
       /\ q <= Len(s) /\ s[q] = HASH
       /\ q + 1 <= Len(s) /\ s[q + 1] # NL
    THEN SkipToLineEnd(s, q + 1)
    ELSE 0

\* replace_all from index p on: leftmost matches, none overlapping
RECURSIVE ReplaceAllFrom(_, _)
ReplaceAllFrom(s, p) ==
    IF p > Len(s) THEN <<>>
    ELSE LET e == CommentMatchEnd(s, p) IN
         IF e # 0 THEN ReplaceAllFrom(s, e)
         ELSE <<s[p]>> \o ReplaceAllFrom(s, p + 1)

\* comment_re.replace_all(&acc, "")
StripComments(acc) == ReplaceAllFrom(acc, 1)

----------------------------------------------------------------------------
(* The engine: crate::engine::Engine::parse(&str) -> Pod                   *)

\* the text is well formed for the format: an opening brace that is never
\* closed is a syntax error
Decodes(text) == \A i \in 1..Len(text) : text[i] # "{"

PodNull == [pod |-> "Null"]

\* T::parse: the decoded value, or the engine's failure value
EngineParse(text) ==
    IF Decodes(text) THEN [pod |-> "Value", of |-> text] ELSE PodNull

----------------------------------------------------------------------------
(* Matter::parse                                                           *)

\* what a call leaves the caller with; self is the receiver as it was during
\* the call, parts the values looking_at took (before the loop, after each line)
NotCalled == [status |-> "none"]
Panicked(self, inp, msg) ==
    [status |-> "panic", self |-> self, input |-> inp, message |-> msg]
Returned(self, entity, parts) ==
    [status |-> "returned", self |-> self, input |-> entity.orig,
     entity |-> entity, parts |-> parts]

\* a bug: the entity starts with the trimmed input as orig
NewParsedEntity_TrimsOrig(inp) ==
    [data |-> None, excerpt |-> None, content |-> <<>>, orig |-> Trim(inp), matter |-> <<>>]

\* ParsedEntity { data: None, excerpt: None, content: "", orig: input, matter: "" }
NewParsedEntity(inp) ==
    [data |-> None, excerpt |-> None, content |-> <<>>, orig |-> inp, matter |-> <<>>]

\* input.is_empty() || input.len() <= self.delimiter.len()
TooShort(self, inp) == inp = <<>> \/ Len(inp) <= Len(self.delimiter)

\* a bug: the excerpt delimiter of the instance is ignored
ExcerptDelimiter_AlwaysFence(self) == self.delimiter

\* self.excerpt_delimiter.clone().unwrap_or_else(|| self.delimiter.clone())
ExcerptDelimiter(self) ==
    IF self.excerpt_delimiter.some THEN self.excerpt_delimiter.val ELSE self.delimiter

\* a bug: line.starts_with(delimiter) in place of the comparison
IsDelimiterLine_StartsWith(line, delim) ==
    Len(line) >= Len(delim) /\ SubSeq(line, 1, Len(delim)) = delim

\* line.trim_end() == delimiter
IsDelimiterLine(line, delim) == TrimEnd(line) = delim

\* a bug: a delimiter line anywhere in the input opens the front matter
StartsWithMatter_AnyLine(self, inp) ==
    /\ SplitOnce(inp).some
    /\ \E i \in 1..Len(Lines(inp)) : TrimEnd(Lines(inp)[i]) = self.delimiter

\* Some((first_line, rest)) if first_line.trim_end() == self.delimiter
StartsWithMatter(self, inp) ==
    LET split == SplitOnce(inp) IN
    split.some /\ IsDelimiterLine(split.val[1], self.delimiter)

\* the lines the loop visits: rest.lines() or input.lines()
ScannedLines(self, inp) ==
    IF StartsWithMatter(self, inp) THEN Lines(SplitOnce(inp).val[2]) ELSE Lines(inp)

\* comment_re.replace_all(&acc, "").trim().strip_suffix(&self.delimiter)
\*     .expect(..).trim_matches('\n'); None is the failed expect
MatterOf(self, acc) ==
    LET stripped == StripSuffix(Trim(StripComments(acc)), self.delimiter) IN
    IF stripped.some THEN Some(TrimMatchesNL(stripped.val)) ELSE None

\* acc.trim().strip_suffix(&excerpt_delimiter).expect(..).trim_matches('\n')
ExcerptOf(self, acc) ==
    LET stripped == StripSuffix(Trim(acc), ExcerptDelimiter(self)) IN
    IF stripped.some THEN Some(TrimMatchesNL(stripped.val)) ELSE None

\* a bug: acc is not reset when the front matter closes
CloseMatter_KeepsAcc(self, st) ==
    LET matter == MatterOf(self, st.acc) IN
    IF ~matter.some THEN
        [st EXCEPT !.panic = "Could not strip front matter delimiter"]
    ELSE IF matter.val # <<>> THEN
        [st EXCEPT !.data = Some(EngineParse(matter.val)),
                   !.matter = matter.val,
                   !.looking_at = "MaybeExcerpt"]
    ELSE [st EXCEPT !.looking_at = "MaybeExcerpt"]

\* Part::Matter, on the closing delimiter; st holds the locals of parse
CloseMatter(self, st) ==
    LET matter == MatterOf(self, st.acc) IN
    IF ~matter.some THEN
        [st EXCEPT !.panic = "Could not strip front matter delimiter"]
    ELSE IF matter.val # <<>> THEN
        [st EXCEPT !.data = Some(EngineParse(matter.val)),
                   !.matter = matter.val,
                   !.acc = <<>>,
                   !.looking_at = "MaybeExcerpt"]
    ELSE [st EXCEPT !.acc = <<>>, !.looking_at = "MaybeExcerpt"]

\* a bug: acc is reset when the excerpt closes, as it is for the front matter
CloseExcerpt_ResetsAcc(self, st) ==
    LET excerpt == ExcerptOf(self, st.acc) IN
    IF ~excerpt.some THEN
        [st EXCEPT !.panic = "Could not strip excerpt delimiter"]
    ELSE [st EXCEPT !.excerpt = Some(excerpt.val), !.acc = <<>>,
                    !.looking_at = "Content"]

\* a bug: an empty excerpt is not assigned, as an empty front matter is not
CloseExcerpt_SkipsEmpty(self, st) ==
    LET excerpt == ExcerptOf(self, st.acc) IN
    IF ~excerpt.some THEN
        [st EXCEPT !.panic = "Could not strip excerpt delimiter"]
    ELSE IF excerpt.val # <<>> THEN
        [st EXCEPT !.excerpt = Some(excerpt.val), !.looking_at = "Content"]
    ELSE [st EXCEPT !.looking_at = "Content"]

\* Part::MaybeExcerpt, on the excerpt delimiter
CloseExcerpt(self, st) ==
    LET excerpt == ExcerptOf(self, st.acc) IN
    IF ~excerpt.some THEN
        [st EXCEPT !.panic = "Could not strip excerpt delimiter"]
    ELSE [st EXCEPT !.excerpt = Some(excerpt.val), !.looking_at = "Content"]

\* a bug: in Content a fence line opens a block again
ScanLine_Reopens(self, st, line) ==
    LET seen == [st EXCEPT !.acc = st.acc \o <<NL>> \o line] IN
    IF st.looking_at = "Matter" /\ IsDelimiterLine(line, self.delimiter)
        THEN CloseMatter(self, seen)
    ELSE IF st.looking_at = "MaybeExcerpt" /\ IsDelimiterLine(line, ExcerptDelimiter(self))
        THEN CloseExcerpt(self, seen)
    ELSE IF st.looking_at = "Content" /\ IsDelimiterLine(line, self.delimiter)
        THEN [seen EXCEPT !.acc = <<>>, !.looking_at = "Matter"]
    ELSE seen

\* one iteration of `for line in lines`
ScanLine(self, st, line) ==
    LET seen == [st EXCEPT !.acc = st.acc \o <<NL>> \o line] IN
    IF st.looking_at = "Matter" /\ IsDelimiterLine(line, self.delimiter)
        THEN CloseMatter(self, seen)
    ELSE IF st.looking_at = "MaybeExcerpt" /\ IsDelimiterLine(line, ExcerptDelimiter(self))
        THEN CloseExcerpt(self, seen)
    ELSE seen

\* the loop over lines[i..]; a panic unwinds out of it
RECURSIVE Scan(_, _, _, _)
Scan(self, st, lines, i) ==
    IF i > Len(lines) \/ st.panic # "" THEN st
    ELSE LET next == ScanLine(self, st, lines[i]) IN
         Scan(self, [next EXCEPT !.parts = Append(st.parts, next.looking_at)], lines, i + 1)

\* pub fn parse(&self, input: &str) -> ParsedEntity
parse(self, inp) ==
    IF TooShort(self, inp) THEN Returned(self, NewParsedEntity(inp), <<>>)
    ELSE
        LET looking_at == IF StartsWithMatter(self, inp) THEN "Matter" ELSE "MaybeExcerpt"
            st0 == [acc |-> <<>>, looking_at |-> looking_at, data |-> None,
                    matter |-> <<>>, excerpt |-> None, panic |-> "",
                    parts |-> <<looking_at>>]
            st == Scan(self, st0, ScannedLines(self, inp), 1)
        IN
        IF st.panic # "" THEN Panicked(self, inp, st.panic)
        ELSE Returned(self,
                      [data |-> st.data,
                       excerpt |-> st.excerpt,
                       content |-> Trim(st.acc),
                       orig |-> inp,
                       matter |-> st.matter],
                      st.parts)

----------------------------------------------------------------------------
(* Matter::parse_with_struct                                               *)

\* the caller's struct D has one field, a: a decoded value converts into D
\* when its text holds that key; the engine's failure value never does
Converts(pod) ==
    pod.pod = "Value" /\ \E i \in 1..Len(pod.of) : pod.of[i] = "a"

\* Pod::deserialize::<D>().ok()
Deserialize(pod) ==
    IF Converts(pod) THEN Some([shape |-> "D", of |-> pod.of]) ELSE None

\* what a call of parse_with_struct leaves the caller with: an
\* Option<ParsedEntityStruct<D>>
ReturnedStruct(self, inp, result) ==
    [status |-> "typed", self |-> self, input |-> inp, result |-> result]

\* a bug: a value that does not convert gives a result with D::default()
parse_with_struct_Defaults(self, inp) ==
    LET called == parse(self, inp) IN
    IF called.status = "panic" THEN called
    ELSE IF ~called.entity.data.some THEN ReturnedStruct(self, inp, None)
    ELSE LET data == Deserialize(called.entity.data.val) IN
         ReturnedStruct(self, inp,
             Some([data |-> IF data.some THEN data.val ELSE [shape |-> "D", of |-> <<>>],
                   content |-> called.entity.content,
                   excerpt |-> called.entity.excerpt,
                   orig |-> called.entity.orig,
                   matter |-> called.entity.matter]))

\* pub fn parse_with_struct<D>(&self, input: &str) -> Option<ParsedEntityStruct<D>>
parse_with_struct(self, inp) ==
    LET called == parse(self, inp) IN
    IF called.status = "panic" THEN called
    ELSE IF ~called.entity.data.some THEN ReturnedStruct(self, inp, None)
    ELSE LET data == Deserialize(called.entity.data.val) IN
         IF ~data.some THEN ReturnedStruct(self, inp, None)
         ELSE ReturnedStruct(self, inp,
                  Some([data |-> data.val,
                        content |-> called.entity.content,
                        excerpt |-> called.entity.excerpt,
                        orig |-> called.entity.orig,
                        matter |-> called.entity.matter]))

----------------------------------------------------------------------------
(* The documents and delimiters the calls are made with                    *)

\* longest document, in lines
MaxLines == 5

Tilde == <<"~", "~">>
Hashes == <<HASH, HASH>>
Text == <<"a">>
Blank == <<>>
Comment == <<HASH, "c">>

\* fence, custom fence, text, blank line, comment
PlainLines == {DefaultDelimiter, Tilde, Text, Blank, Comment}

\* fence, text with trailing space, text ending in "\r" (CRLF), blank line, comment
MatterLines == {DefaultDelimiter, <<"a", SP>>, <<"a", CR>>, Blank, Comment}

\* fence, custom fence, text with trailing space, text ending in "\r", blank line
ExcerptLines == {DefaultDelimiter, Tilde, <<"a", SP>>, <<"a", CR>>, Blank}

\* fence, fence with trailing space, and lines that only resemble the fence
LookalikeLines ==
    {DefaultDelimiter, <<"-", "-", "-", SP>>, <<"-", "-", "-", "a">>,
     <<"-", "-", "-", "-">>, <<"a", SP, "-", "-", "-">>}

\* fence, a fence of hashes, bare "#", text the engine cannot decode, text
EdgeLines == {DefaultDelimiter, Hashes, <<HASH>>, <<"{">>, Text}

\* fence, fence with trailing space, custom fence, indented text, blank line
BodyLines ==
    {DefaultDelimiter, <<"-", "-", "-", SP>>, Tilde, <<SP, "a">>, Blank}

\* fence, text that converts, text that decodes but does not convert, text the
\* engine cannot decode
TypedLines == {DefaultDelimiter, Text, <<"b">>, <<"{">>}

\* a front matter block: "---\na \n---\n"
Block == DefaultDelimiter \o <<NL, "a", SP, NL>> \o DefaultDelimiter \o <<NL>>

\* documents for calls made one after another on one instance: a block and a
\* body, a block fenced with "~~" and an excerpt, an excerpt closed by "~~", a
\* block that does not convert and an excerpt, a short input
ReuseDocuments ==
    {Block \o Text,
     Tilde \o <<NL>> \o Text \o <<NL>> \o Tilde \o <<NL>> \o Text \o <<NL>> \o Tilde,
     Text \o <<NL>> \o Tilde \o <<NL, "b">>,
     DefaultDelimiter \o <<NL, "b", NL>> \o DefaultDelimiter \o <<NL, "c", NL>> \o DefaultDelimiter,
     Text}

RECURSIVE Join(_)
Join(lines) ==
    IF lines = <<>> THEN <<>>
    ELSE IF Len(lines) = 1 THEN lines[1]
    ELSE lines[1] \o <<NL>> \o Join(Tail(lines))

\* the documents of at most n lines drawn from vocabulary
Documents(vocabulary, n) ==
    {Join(lines) : lines \in UNION {[1..k -> vocabulary] : k \in 0..n}}

Delimiters == {DefaultDelimiter, Tilde}
ExcerptDelimiters == {None, Some(Tilde)}

----------------------------------------------------------------------------
(* The parser instance and the calls on it                                 *)

Self == [delimiter |-> delimiter, excerpt_delimiter |-> excerpt_delimiter]

\* Matter::new()
NewMatter ==
    /\ delimiter = DefaultDelimiter
    /\ excerpt_delimiter = None
    /\ parsed_entity = NotCalled

Init ==
    /\ NewMatter
    /\ input \in Documents(PlainLines, MaxLines)

InitMatter ==
    /\ NewMatter
    /\ input \in Documents(MatterLines, MaxLines)

\* documents with and without a front matter block ahead of them
InitExcerpt ==
    /\ NewMatter
    /\ input \in Documents(ExcerptLines, MaxLines)
                 \cup {Block \o d : d \in Documents(ExcerptLines, MaxLines - 2)}

InitLookalike ==
    /\ NewMatter
    /\ input \in Documents(LookalikeLines, MaxLines)

InitEdge ==
    /\ NewMatter
    /\ input \in Documents(EdgeLines, MaxLines)

InitBody ==
    /\ NewMatter
    /\ input \in Documents(BodyLines, MaxLines)

InitTyped ==
    /\ NewMatter
    /\ input \in Documents(TypedLines, MaxLines)

InitReuse ==
    /\ NewMatter
    /\ input \in ReuseDocuments

\* matter.delimiter = d
SetDelimiter(d) ==
    /\ delimiter # d
    /\ delimiter' = d
    /\ UNCHANGED <<excerpt_delimiter, input, parsed_entity>>

\* matter.excerpt_delimiter = e
SetExcerptDelimiter(e) ==
    /\ excerpt_delimiter # e
    /\ excerpt_delimiter' = e
    /\ UNCHANGED <<delimiter, input, parsed_entity>>

\* a bug: a call without an excerpt keeps the excerpt of the call before
CallParse_KeepsExcerpt ==
    /\ parsed_entity' =
          LET called == parse(Self, input) IN
          IF /\ called.status = "returned" /\ ~called.entity.excerpt.some
             /\ parsed_entity.status = "returned" /\ parsed_entity.entity.excerpt.some
          THEN [called EXCEPT !.entity.excerpt = parsed_entity.entity.excerpt]
          ELSE called
    /\ UNCHANGED <<delimiter, excerpt_delimiter, input>>

\* matter.parse(input)
CallParse ==
    /\ parsed_entity' = parse(Self, input)
    /\ UNCHANGED <<delimiter, excerpt_delimiter, input>>

\* matter.parse_with_struct::<D>(input)
CallParseWithStruct ==
    /\ parsed_entity' = parse_with_struct(Self, input)
    /\ UNCHANGED <<delimiter, excerpt_delimiter, input>>

Next ==
    \/ \E d \in Delimiters : SetDelimiter(d)
    \/ \E e \in ExcerptDelimiters : SetExcerptDelimiter(e)
    \/ CallParse

\* the same calls, the fence also set to a token that starts with "#"
NextEdge ==
    \/ \E d \in Delimiters \cup {Hashes} : SetDelimiter(d)
    \/ \E e \in ExcerptDelimiters : SetExcerptDelimiter(e)
    \/ CallParse

\* the caller takes another document for the calls that follow
TakeInput(doc) ==
    /\ input # doc
    /\ input' = doc
    /\ UNCHANGED <<delimiter, excerpt_delimiter, parsed_entity>>

\* the calls of Next and parse_with_struct
NextTyped ==
    \/ \E d \in Delimiters : SetDelimiter(d)
    \/ \E e \in ExcerptDelimiters : SetExcerptDelimiter(e)
    \/ CallParse
    \/ CallParseWithStruct

\* calls of parse and parse_with_struct on changing documents
NextReuse ==
    \/ \E d \in Delimiters : SetDelimiter(d)
    \/ \E e \in ExcerptDelimiters : SetExcerptDelimiter(e)
    \/ \E doc \in ReuseDocuments : TakeInput(doc)
    \/ CallParse
    \/ CallParseWithStruct

Spec == Init /\ [][Next]_vars
SpecMatter == InitMatter /\ [][Next]_vars
SpecExcerpt == InitExcerpt /\ [][Next]_vars
SpecLookalike == InitLookalike /\ [][Next]_vars
SpecEdge == InitEdge /\ [][NextEdge]_vars
SpecBody == InitBody /\ [][Next]_vars
SpecTyped == InitTyped /\ [][NextTyped]_vars
SpecReuse == InitReuse /\ [][NextReuse]_vars

----------------------------------------------------------------------------
(* What the properties below say about a call: the document as written     *)

\* the call whose outcome is held, and its result
Called == parsed_entity.status # "none"
HasReturned == parsed_entity.status = "returned"
Result == parsed_entity.entity
Parts == parsed_entity.parts
Fence == parsed_entity.self.delimiter
ExcerptFence ==
    IF parsed_entity.self.excerpt_delimiter.some
    THEN parsed_entity.self.excerpt_delimiter.val
    ELSE parsed_entity.self.delimiter
Doc == parsed_entity.input

\* the pieces of s between its "\n" characters, every one of them
RECURSIVE RawLines(_)
RawLines(s) ==
    LET i == FirstNL(s, 1) IN
    IF i = 0 THEN <<s>>
    ELSE <<SubSeq(s, 1, i - 1)>> \o RawLines(SubSeq(s, i + 1, Len(s)))

\* s with every "\r\n" written "\n"
RECURSIVE CrLfAsLf(_)
CrLfAsLf(s) ==
    IF s = <<>> THEN <<>>
    ELSE IF Len(s) >= 2 /\ s[1] = CR /\ s[2] = NL THEN <<NL>> \o CrLfAsLf(SubSeq(s, 3, Len(s)))
    ELSE <<s[1]>> \o CrLfAsLf(Tail(s))

\* the line is the token, trailing whitespace aside
IsToken(line, token) == TrimEnd(line) = token

\* the first index from i on of a line that is the token, 0 when there is none
RECURSIVE FirstTokenLine(_, _, _)
FirstTokenLine(lines, token, i) ==
    IF i > Len(lines) THEN 0
    ELSE IF IsToken(lines[i], token) THEN i
    ELSE FirstTokenLine(lines, token, i + 1)

\* the text of lines[from..to]
TextOf(lines, from, to) == Join(SubSeq(lines, from, to))

IsBlankLine(line) == Trim(line) = <<>>
IsCommentLine(line) == TrimStart(line) # <<>> /\ TrimStart(line)[1] = HASH

\* the document opens a block with the fence and a later line closes it
OpensBlock(lines, fence) == Len(lines) >= 2 /\ IsToken(lines[1], fence)
ClosingLine(lines, fence) == FirstTokenLine(lines, fence, 2)
HasClosedBlock(lines, fence) == OpensBlock(lines, fence) /\ ClosingLine(lines, fence) # 0

----------------------------------------------------------------------------
(* parse is total                                                          *)

\* C1: whatever the input and the fence, a call to parse returns a result and
\* never panics, also where the fence is stripped from the accumulated text.
C1_ParseNeverPanics == parsed_entity.status # "panic"

----------------------------------------------------------------------------
(* Short input                                                             *)

\* C2: for an input that is empty or no longer than the fence, parse returns
\* no metadata, no excerpt, and the trimmed input as content.
C2_ShortInputKeepsContent ==
    (HasReturned /\ (Doc = <<>> \/ Len(Doc) <= Len(Fence))) =>
        /\ Result.data = None
        /\ Result.excerpt = None
        /\ Result.content = Trim(Doc)

----------------------------------------------------------------------------
(* Metadata and the engine                                                 *)

\* C4: metadata is present exactly when raw_matter is non-empty and the
\* engine decoded it; a block the engine cannot decode gives absent metadata.
C4_MetadataIffDecoded ==
    HasReturned =>
        (Result.data.some <=> (Result.matter # <<>> /\ Decodes(Result.matter)))

\* C5: a block opened by the fence whose lines up to the closing fence are all
\* blank or "#" comment lines gives no metadata, an empty raw_matter, and the
\* trimmed text after the closing fence as content.
C5_CommentOnlyBlockIsEmpty ==
    LET lines == RawLines(Doc)
        j == ClosingLine(lines, Fence)
    IN
    (/\ HasReturned
     /\ HasClosedBlock(lines, Fence)
     /\ \A i \in 2..(j - 1) : IsBlankLine(lines[i]) \/ IsCommentLine(lines[i])) =>
        /\ Result.data = None
        /\ Result.matter = <<>>
        /\ Result.content = Trim(TextOf(lines, j + 1, Len(lines)))

\* C7: with the fence set to a custom token, a document fenced with another
\* token has no metadata, and a block of text fenced with the custom token on
\* the first and on a later line has metadata.
C7_CustomFenceOnly ==
    LET lines == RawLines(Doc)
        j == ClosingLine(lines, Fence)
    IN
    (Called /\ Fence # DefaultDelimiter) =>
        /\ ~IsToken(lines[1], Fence) =>
              HasReturned /\ Result.data = None
        /\ (/\ HasClosedBlock(lines, Fence)
            /\ \E i \in 2..(j - 1) : ~IsBlankLine(lines[i]) /\ ~IsCommentLine(lines[i])) =>
              HasReturned /\ Result.data.some

----------------------------------------------------------------------------
(* Which lines move the scanner                                            *)

\* the lines the loop went over, as written in the document
LinesAfterStart(lines) == IF Parts[1] = "Matter" THEN Tail(lines) ELSE lines

\* the number of lines of the document (a last line ending ends no new line)
LineCount(doc) ==
    IF doc = <<>> THEN 0
    ELSE IF doc[Len(doc)] = NL THEN Len(RawLines(doc)) - 1
    ELSE Len(RawLines(doc))

\* C6: the scanner opens the block, closes the block or closes the excerpt
\* only at a line that, trailing whitespace aside, is the delimiter in force; a
\* document none of whose lines is a delimiter has no metadata or excerpt and
\* is content as a whole.
C6_OnlyExactDelimiterLinesMove ==
    LET lines == RawLines(Doc) IN
    (HasReturned /\ Parts # <<>>) =>
        /\ Parts[1] = "Matter" => IsToken(lines[1], Fence)
        /\ \A i \in 1..(Len(Parts) - 1) :
              Parts[i] # Parts[i + 1] =>
                  IsToken(LinesAfterStart(lines)[i],
                          IF Parts[i] = "Matter" THEN Fence ELSE ExcerptFence)
        /\ (\A i \in 1..Len(lines) :
                ~IsToken(lines[i], Fence) /\ ~IsToken(lines[i], ExcerptFence)) =>
              /\ Result.data = None
              /\ Result.excerpt = None
              /\ Result.content = Trim(CrLfAsLf(Doc))

\* a closed block that holds a line starting with the fence, kept as matter
C6_Witness ==
    LET lines == RawLines(Doc)
        j == ClosingLine(lines, Fence)
    IN
    /\ HasReturned
    /\ HasClosedBlock(lines, Fence)
    /\ \E i \in 2..(j - 1) :
          /\ Len(lines[i]) > Len(Fence)
          /\ SubSeq(lines[i], 1, Len(Fence)) = Fence
          /\ Result.matter = TextOf(lines, 2, j - 1)
    /\ Result.data.some

\* C8: the scanner starts in Matter only if the first line is the fence;
\* otherwise it starts in MaybeExcerpt and goes over every line, the first one
\* too, and the result has no metadata and an empty raw_matter however many
\* fence lines follow.
C8_MatterOnlyAfterFirstLineFence ==
    LET lines == RawLines(Doc) IN
    HasReturned =>
        /\ (Parts # <<>> /\ Parts[1] = "Matter") => IsToken(lines[1], Fence)
        /\ ~IsToken(lines[1], Fence) =>
              /\ Result.data = None
              /\ Result.matter = <<>>
              /\ Parts # <<>> =>
                    /\ \A i \in 1..Len(Parts) : Parts[i] # "Matter"
                    /\ Len(Parts) = LineCount(Doc) + 1
                    /\ Result.content = Trim(CrLfAsLf(Doc))

\* a document that does not start with the fence and has two fence lines later
C8_Witness ==
    LET lines == RawLines(Doc) IN
    /\ HasReturned
    /\ Parts # <<>>
    /\ ~IsToken(lines[1], Fence)
    /\ \E i, j \in 2..Len(lines) :
          i < j /\ IsToken(lines[i], Fence) /\ IsToken(lines[j], Fence)
    /\ Result.data = None

----------------------------------------------------------------------------
(* Front matter, excerpt and content of a document with a closed block     *)

\* the first index from i on of a line equal to the token, 0 when there is none
RECURSIVE FirstEqualLine(_, _, _)
FirstEqualLine(lines, token, i) ==
    IF i > Len(lines) THEN 0
    ELSE IF lines[i] = token THEN i
    ELSE FirstEqualLine(lines, token, i + 1)

\* text, ended by a line break, without leading whitespace and trailing line
\* breaks, "\r\n" read as "\n"
WithoutLeadingSpaceAndLastBreaks(text) ==
    TrimMatchesNL(TrimStart(CrLfAsLf(text \o <<NL>>)))

ExcerptLine(lines, j) == FirstTokenLine(lines, ExcerptFence, j + 1)

\* C9 as claimed: once the block has closed, at the first line that is the
\* excerpt delimiter the excerpt is the trimmed text between the closing fence
\* and that line, and content is the trimmed text of all that follows the
\* closing fence.
C9_ExcerptIsTrimmedText ==
    LET lines == RawLines(Doc)
        j == ClosingLine(lines, Fence)
        k == ExcerptLine(lines, j)
    IN
    (HasReturned /\ HasClosedBlock(lines, Fence) /\ k # 0) =>
        /\ Result.excerpt = Some(Trim(TextOf(lines, j + 1, k - 1)))
        /\ Result.content = Trim(TextOf(lines, j + 1, Len(lines)))

\* C9 as amended: the excerpt is that text without its leading whitespace and
\* its trailing line breaks (trailing blanks of its last line stay), and
\* content is the trimmed text of all that follows the closing fence, excerpt
\* text and delimiter line included ("\r\n" read as "\n" in both).
C9_ExcerptKeepsTrailingBlanks ==
    LET lines == RawLines(Doc)
        j == ClosingLine(lines, Fence)
        k == ExcerptLine(lines, j)
    IN
    (HasReturned /\ HasClosedBlock(lines, Fence) /\ k # 0) =>
        /\ Result.excerpt =
              Some(WithoutLeadingSpaceAndLastBreaks(TextOf(lines, j + 1, k - 1)))
        /\ Result.content = Trim(CrLfAsLf(TextOf(lines, j + 1, Len(lines))))

\* a decoded block, then an excerpt, its delimiter line, and text after it
C9_Witness ==
    LET lines == RawLines(Doc)
        j == ClosingLine(lines, Fence)
        k == ExcerptLine(lines, j)
    IN
    /\ HasReturned
    /\ HasClosedBlock(lines, Fence)
    /\ Result.data.some
    /\ k # 0
    /\ Result.excerpt.some /\ Result.excerpt.val # <<>>
    /\ TrimEnd(Result.excerpt.val) # Result.excerpt.val
    /\ k < Len(lines) /\ ~IsBlankLine(lines[Len(lines)])
    /\ Len(Result.content) > Len(Result.excerpt.val) + Len(ExcerptFence)

\* the scanner leaves MaybeExcerpt exactly at the lines that are the token
ExcerptClosesExactlyAt(lines, token) ==
    \A i \in 1..(Len(Parts) - 1) :
        Parts[i] = "MaybeExcerpt" =>
            (Parts[i + 1] = "Content" <=> IsToken(LinesAfterStart(lines)[i], token))

\* C10 as claimed: the excerpt closes at the lines that are excerpt_fence when
\* it is set, the fence otherwise, and at no other line; in a document without
\* a block the excerpt is the trimmed text from the start of the input to the
\* first such line.
C10_ExcerptFenceTrimmedText ==
    LET lines == RawLines(Doc)
        k == FirstTokenLine(lines, ExcerptFence, 1)
    IN
    (HasReturned /\ Parts # <<>>) =>
        /\ ExcerptClosesExactlyAt(lines, ExcerptFence)
        /\ (~IsToken(lines[1], Fence) /\ k # 0) =>
              Result.excerpt = Some(Trim(TextOf(lines, 1, k - 1)))

\* C10 as amended: as claimed, for an input longer than the fence, the excerpt
\* being that text without its leading whitespace and its trailing line breaks
\* ("\r\n" read as "\n").
C10_ExcerptFenceKeepsTrailingBlanks ==
    LET lines == RawLines(Doc)
        k == FirstTokenLine(lines, ExcerptFence, 1)
    IN
    (HasReturned /\ Parts # <<>>) =>
        /\ ExcerptClosesExactlyAt(lines, ExcerptFence)
        /\ (~IsToken(lines[1], Fence) /\ k # 0) =>
              Result.excerpt =
                  Some(WithoutLeadingSpaceAndLastBreaks(TextOf(lines, 1, k - 1)))

\* no block, excerpt_fence set to another token than the fence: the excerpt
\* runs over a fence line up to the excerpt_fence line
C10_Witness ==
    LET lines == RawLines(Doc)
        k == FirstTokenLine(lines, ExcerptFence, 1)
    IN
    /\ HasReturned
    /\ Parts # <<>>
    /\ parsed_entity.self.excerpt_delimiter.some
    /\ ExcerptFence # Fence
    /\ ~IsToken(lines[1], Fence)
    /\ k > 2
    /\ \E i \in 2..(k - 1) : IsToken(lines[i], Fence)
    /\ Result.data = None
    /\ Result.excerpt.some
    /\ Len(Result.excerpt.val) > Len(Fence)

----------------------------------------------------------------------------
(* A block that never closes                                               *)

\* the scanner was in Matter from the first line to the last
StayedInMatter == Parts # <<>> /\ \A i \in 1..Len(Parts) : Parts[i] = "Matter"

\* C11 as claimed: if the first line is the fence and no later line is the
\* fence, there is no metadata, raw_matter is empty, and content is the
\* trimmed text of all that follows the first line.
C11_UnclosedBlockIsContent ==
    LET lines == RawLines(Doc) IN
    (/\ HasReturned
     /\ IsToken(lines[1], Fence)
     /\ ClosingLine(lines, Fence) = 0) =>
        /\ Result.data = None
        /\ Result.matter = <<>>
        /\ Result.content = Trim(CrLfAsLf(TextOf(lines, 2, Len(lines))))

\* C11 as amended: the same, for a first line that is ended by a line break.
C11_UnclosedBlockAfterLineBreakIsContent ==
    LET lines == RawLines(Doc) IN
    (/\ HasReturned
     /\ OpensBlock(lines, Fence)
     /\ ClosingLine(lines, Fence) = 0) =>
        /\ Result.data = None
        /\ Result.matter = <<>>
        /\ Result.content = Trim(CrLfAsLf(TextOf(lines, 2, Len(lines))))

\* an opened block followed by text and by a line that only starts with the
\* fence: the scanner never leaves Matter and all of it is content
C11_Witness ==
    LET lines == RawLines(Doc) IN
    /\ HasReturned
    /\ OpensBlock(lines, Fence)
    /\ ClosingLine(lines, Fence) = 0
    /\ StayedInMatter
    /\ Len(lines) >= 3
    /\ \E i \in 2..Len(lines) :
          Len(lines[i]) > Len(Fence) /\ SubSeq(lines[i], 1, Len(Fence)) = Fence
    /\ Result.data = None
    /\ Result.content = TextOf(lines, 2, Len(lines))
    /\ Result.content # <<>>

----------------------------------------------------------------------------
(* The scanner moves forward only                                          *)

\* looking_at stays, or goes from Matter to MaybeExcerpt, or from
\* MaybeExcerpt to Content
MovesForward(from, to) ==
    \/ from = to
    \/ from = "Matter" /\ to = "MaybeExcerpt"
    \/ from = "MaybeExcerpt" /\ to = "Content"

\* how many times the scanner left the part
TimesLeft(part) ==
    Cardinality({i \in 1..(Len(Parts) - 1) : Parts[i] = part /\ Parts[i + 1] # part})

\* C12: over the lines of a document the scanner only moves forward, Matter,
\* then MaybeExcerpt, then Content: it leaves Matter at most once, at the first
\* closing fence, where metadata and raw_matter are assigned, and leaves
\* MaybeExcerpt at most once, at the first excerpt delimiter line after that,
\* where the excerpt is assigned; every later delimiter line changes neither
\* and stays as text in content.
C12_ScannerOnlyMovesForward ==
    LET lines == RawLines(Doc)
        j == ClosingLine(lines, Fence)
        k == ExcerptLine(lines, j)
        block == TrimMatchesNL(TrimStart(StripComments(
                     CrLfAsLf(TextOf(lines, 2, j - 1) \o <<NL>>))))
    IN
    (HasReturned /\ Parts # <<>>) =>
        /\ \A i \in 1..(Len(Parts) - 1) : MovesForward(Parts[i], Parts[i + 1])
        /\ TimesLeft("Matter") <= 1
        /\ TimesLeft("MaybeExcerpt") <= 1
        /\ HasClosedBlock(lines, Fence) =>
              /\ Parts[j] = "MaybeExcerpt"
              /\ Result.matter = block
              /\ Result.data.some <=> block # <<>>
              /\ IF k = 0 THEN Result.excerpt = None
                 ELSE /\ Parts[k] = "Content"
                      /\ Result.excerpt =
                            Some(WithoutLeadingSpaceAndLastBreaks(TextOf(lines, j + 1, k - 1)))
              /\ Result.content = Trim(CrLfAsLf(TextOf(lines, j + 1, Len(lines))))

\* fence, block, fence, fence, fence: the block is decoded, the two last fence
\* lines are the content
C12_Witness ==
    LET lines == RawLines(Doc)
        j == ClosingLine(lines, Fence)
    IN
    /\ HasReturned
    /\ HasClosedBlock(lines, Fence)
    /\ ExcerptFence = Fence
    /\ Len(lines) = j + 2
    /\ lines[j + 1] = Fence /\ lines[j + 2] = Fence
    /\ Result.data.some
    /\ Result.matter = TextOf(lines, 2, j - 1)
    /\ Result.excerpt = Some(<<>>)
    /\ Result.content = Fence \o <<NL>> \o Fence
    /\ Parts[Len(Parts)] = "Content"

----------------------------------------------------------------------------
(* parse_with_struct against parse                                         *)

\* the call held is one of parse_with_struct that returned
HasReturnedStruct == parsed_entity.status = "typed"

\* C13: parse_with_struct returns no result exactly when the metadata parse
\* returns for the same input and configuration is absent or does not convert
\* into the caller's struct; a result it returns has the content, excerpt,
\* original and raw_matter that parse returns.
C13_StructIffMetadataConverts ==
    HasReturnedStruct =>
        LET untyped == parse(parsed_entity.self, Doc)
            typed == parsed_entity.result
        IN
        /\ untyped.status = "returned"
        /\ ~typed.some <=>
              (~untyped.entity.data.some \/ ~Converts(untyped.entity.data.val))
        /\ typed.some =>
              /\ typed.val.content = untyped.entity.content
              /\ typed.val.excerpt = untyped.entity.excerpt
              /\ typed.val.orig = untyped.entity.orig
              /\ typed.val.matter = untyped.entity.matter

\* a block that converts, followed by an excerpt and text: a result is returned
C13_Witness ==
    /\ HasReturnedStruct
    /\ parsed_entity.result.some
    /\ parsed_entity.result.val.matter # <<>>
    /\ parsed_entity.result.val.excerpt.some
    /\ parsed_entity.result.val.excerpt.val # <<>>
    /\ parsed_entity.result.val.content # <<>>
    /\ parsed_entity.result.val.orig = input

----------------------------------------------------------------------------
(* Parsing the content again                                               *)

\* no line of the text is the fence or the excerpt delimiter of the call
HasNoDelimiterLine(text) ==
    \A i \in 1..Len(RawLines(text)) :
        /\ ~IsToken(RawLines(text)[i], Fence)
        /\ ~IsToken(RawLines(text)[i], ExcerptFence)

\* C14: when the content of a result has no fence or excerpt delimiter line,
\* parsing that content with the same configuration returns it as content,
\* unchanged.
C14_ContentParsesToItself ==
    (HasReturned /\ HasNoDelimiterLine(Result.content)) =>
        LET again == parse(parsed_entity.self, Result.content) IN
        /\ again.status = "returned"
        /\ again.entity.content = Result.content

----------------------------------------------------------------------------
(* One instance, many calls                                                *)

\* the configurations an instance is given
Configurations ==
    [delimiter : Delimiters, excerpt_delimiter : ExcerptDelimiters]

\* what the calls on the documents return
Outcomes ==
    {parse(self, doc) : self \in Configurations, doc \in ReuseDocuments}
    \cup {parse_with_struct(self, doc) : self \in Configurations, doc \in ReuseDocuments}

\* the call held is the call that returned r, made again: the same method on
\* the same input with the same configuration
SameCallAs(r) ==
    /\ Called
    /\ (parsed_entity.status = "typed") = (r.status = "typed")
    /\ parsed_entity.self = r.self
    /\ parsed_entity.input = r.input

\* a step that is a call leaves the fence and the excerpt delimiter as they are
CallsKeepConfiguration ==
    [][parsed_entity' # parsed_entity =>
           /\ delimiter' = delimiter
           /\ excerpt_delimiter' = excerpt_delimiter
           /\ parsed_entity'.self = Self
           /\ parsed_entity'.input = input]_vars

----------------------------------------------------------------------------
(* The original                                                            *)

\* C16: whichever way parse returns, also for an empty or too short input,
\* the original of the result is the input, character for character.
C16_OriginalIsInput ==
    HasReturned => Result.orig = input

\* a document with "\r\n" line endings, a comment in its block and blank
\* lines at its end: none of these are in raw_matter or content, all are in
\* the original
C16_Witness ==
    LET lines == RawLines(input)
        j == ClosingLine(lines, Fence)
    IN
    /\ HasReturned
    /\ Parts # <<>>
    /\ HasClosedBlock(lines, Fence)
    /\ \E i \in 2..(j - 1) : IsCommentLine(lines[i])
    /\ \E i \in 1..Len(input) : input[i] = CR
    /\ input[Len(input)] = NL
    /\ Result.data.some
    /\ \A i \in 1..Len(Result.matter) : Result.matter[i] # HASH
    /\ Result.orig = input

----------------------------------------------------------------------------
(* Comments in the block                                                   *)

IsNoCommentLine(line) == ~IsCommentLine(line)

\* the document without the comment lines of its block; line j closes the block
WithoutBlockComments(lines, j) ==
    Join(<<lines[1]>> \o SelectSeq(SubSeq(lines, 2, j - 1), IsNoCommentLine)
         \o SubSeq(lines, j, Len(lines)))

\* C17: when the block closes, every line of it that starts with "#", leading
\* whitespace aside, is removed with its line ending: raw_matter is the
\* raw_matter of the same document with those lines deleted, nothing being
\* left in the place of a comment.
C17_CommentLinesAreDeleted ==
    LET lines == RawLines(Doc)
        j == ClosingLine(lines, Fence)
        without == parse(parsed_entity.self, WithoutBlockComments(lines, j))
    IN
    (HasReturned /\ HasClosedBlock(lines, Fence)) =>
        /\ without.status = "returned"
        /\ Result.matter = without.entity.matter

----------------------------------------------------------------------------
(* Comments outside the block                                              *)

\* the text that is not in a closed block: what follows the closing fence,
\* what follows the first line when the block never closes, else the document
BodyOf(lines, fence) ==
    IF HasClosedBlock(lines, fence)
        THEN TextOf(lines, ClosingLine(lines, fence) + 1, Len(lines))
    ELSE IF OpensBlock(lines, fence) THEN TextOf(lines, 2, Len(lines))
    ELSE Join(lines)

\* the lines of the text that start with "#", leading whitespace aside
CommentLinesOf(text) == SelectSeq(RawLines(text), IsCommentLine)

\* C18: comments are stripped from the captured block only: the lines
\* starting with "#" after the closing fence, or anywhere in a document
\* whose block never closes or that opens none, are in content as written,
\* and those before the excerpt delimiter line are in the excerpt as written.
C18_CommentsKeptOutsideBlock ==
    LET body == CrLfAsLf(BodyOf(RawLines(Doc), Fence))
        lines == RawLines(body)
        k == FirstTokenLine(lines, ExcerptFence, 1)
    IN
    HasReturned =>
        /\ CommentLinesOf(Result.content) = CommentLinesOf(body)
        /\ Result.excerpt.some =>
              /\ k # 0
              /\ CommentLinesOf(Result.excerpt.val) =
                     CommentLinesOf(TextOf(lines, 1, k - 1))

----------------------------------------------------------------------------
(* When there is an excerpt                                                *)

\* C19 as claimed: the excerpt is present exactly when a line is the excerpt
\* delimiter after the closing fence of the block or, the first line not
\* being the fence, anywhere in the input; the text before that line may be
\* empty, and a block that is opened and never closed gives no excerpt.
C19_ExcerptIffDelimiterLine ==
    LET lines == RawLines(Doc)
        j == ClosingLine(lines, Fence)
    IN
    HasReturned =>
        (Result.excerpt.some <=>
            IF IsToken(lines[1], Fence)
            THEN j # 0 /\ ExcerptLine(lines, j) # 0
            ELSE FirstTokenLine(lines, ExcerptFence, 1) # 0)

\* C19 as amended: the same for an input longer than the fence, a first line
\* that is the fence and is not ended by a line break opening no block, so
\* that the excerpt delimiter is looked for from the first line on; an input
\* no longer than the fence has no excerpt.
C19_ExcerptIffDelimiterLineScanned ==
    LET lines == RawLines(Doc)
        j == ClosingLine(lines, Fence)
    IN
    HasReturned =>
        (Result.excerpt.some <=>
            /\ Len(Doc) > Len(Fence)
            /\ IF OpensBlock(lines, Fence)
               THEN j # 0 /\ ExcerptLine(lines, j) # 0
               ELSE FirstTokenLine(lines, ExcerptFence, 1) # 0)

\* a decoded block and the excerpt delimiter on the line after its closing
\* fence: the excerpt is present and empty
C19_Witness ==
    LET lines == RawLines(Doc)
        j == ClosingLine(lines, Fence)
    IN
    /\ HasReturned
    /\ HasClosedBlock(lines, Fence)
    /\ Result.data.some
    /\ ExcerptLine(lines, j) = j + 1
    /\ Result.excerpt = Some(<<>>)
    /\ Result.content # <<>>

----------------------------------------------------------------------------
(* What trimming does to the content                                       *)

\* the lines without the blank lines at their start
RECURSIVE DropLeadingBlankLines(_)
DropLeadingBlankLines(lines) ==
    IF lines # <<>> /\ IsBlankLine(lines[1]) THEN DropLeadingBlankLines(Tail(lines))
    ELSE lines

\* the lines without the blank lines at their end
RECURSIVE DropTrailingBlankLines(_)
DropTrailingBlankLines(lines) ==
    IF lines # <<>> /\ IsBlankLine(lines[Len(lines)])
    THEN DropTrailingBlankLines(SubSeq(lines, 1, Len(lines) - 1))
    ELSE lines

\* the text without its leading and trailing blank lines, every other
\* character as written
WithoutBlankLinesAround(text) ==
    Join(DropTrailingBlankLines(DropLeadingBlankLines(RawLines(text))))

\* C20: content is the text after the block without its leading and trailing
\* blank lines and nothing else removed: the first and the last line that are
\* not blank keep all their characters, their indentation too, and the line
\* breaks between the lines are those of the input.
C20_ContentKeepsIndentation ==
    HasReturned =>
        Result.content = WithoutBlankLinesAround(BodyOf(RawLines(Doc), Fence))

====
